---------------------------- MODULE Spec2Model ----------------------------
(***************************************************************************)
(* Popular Times integration (custom_components/populartimes).            *)
(*                                                                         *)
(* The module models                                                       *)
(*   - the coordinator's update method _async_update_data (__init__.py):   *)
(*     query derivation, the retry loop with exponential backoff and       *)
(*     jitter, and the normalisation of a fetched snapshot;                *)
(*   - the sensor entity's own async_update (sensor.py);                   *)
(*   - the options flow that stores the retry policy (config_flow.py).     *)
(*                                                                         *)
(* Durations are in milliseconds.  Python values that may be None, int,    *)
(* float, NaN or a string are records [t, x]; a float carries its value    *)
(* in tenths.  Strings that the code inspects character by character are   *)
(* sequences of one-character strings.                                     *)
(***************************************************************************)
EXTENDS Integers, Sequences, FiniteSets, TLC

(***************************************************************************)
(* Bounds of the model.                                                    *)
(***************************************************************************)
\* random.uniform(0, 0.4 * sleep_for) is drawn at JitterSteps + 1 evenly
\* spaced points of its interval, both ends included.
JitterSteps == 1
\* Longest name / address of the query derivation's inputs.
MaxNameLen == 2
MaxAddrLen == 3

(***************************************************************************)
(* Program constants.                                                      *)
(***************************************************************************)
max_attempts == 4
InitialDelayMs == 1000
max_delay == 8000
UpdateIntervalMinutes == 10

Min(a, b) == IF a <= b THEN a ELSE b
Max(a, b) == IF a >= b THEN a ELSE b

(***************************************************************************)
(* Python values.                                                          *)
(***************************************************************************)
NoneV == [t |-> "none", x |-> 0]
IntV(n) == [t |-> "int", x |-> n]
\* a float, given in tenths: FloatV(996) is 99.6
FloatV(tenths) == [t |-> "float", x |-> tenths]
\* float('nan'): a float that int() cannot convert
NaNV == [t |-> "nan", x |-> 0]
StrV == [t |-> "str", x |-> 0]

\* isinstance(v, (int, float))
IsNumeric(v) == v.t \in {"int", "float", "nan"}

\* int(v) raises ValueError for NaN
IntRaises(v) == v.t = "nan"

\* int(v): the identity on an int, truncation toward zero on a float
PyInt(v) ==
    IF v.t = "int" THEN v.x
    ELSE IF v.x >= 0 THEN v.x \div 10 ELSE -((-v.x) \div 10)

\* Python's round(v): to the nearest integer, a tie to the even one
PyRound(v) ==
    IF v.t = "int" THEN v.x
    ELSE LET f == v.x \div 10
             r == v.x - 10 * f
         IN IF r < 5 THEN f
            ELSE IF r > 5 THEN f + 1
            ELSE IF f % 2 = 0 THEN f ELSE f + 1

\* v as a number of tenths, to compare an int with a float
Tenths(v) == IF v.t = "int" THEN 10 * v.x ELSE v.x


(***************************************************************************)
(* Snapshots: what livepopulartimes.get_populartimes_by_address returns.   *)
(* shape "dict" is the documented mapping, "list" a truthy value of        *)
(* another shape, "empty" a falsy result (None or an empty mapping).       *)
(* pt is the value under "populartimes": the key missing, None, or a list  *)
(* of days, each a mapping with "data" (ok) or malformed.                  *)
(***************************************************************************)
Day(ok, data) == [ok |-> ok, data |-> data]
Grid(kind, days) == [kind |-> kind, days |-> days]
Snapshot(shape, name, address, cp, pt) ==
    [shape |-> shape, name |-> name, address |-> address, cp |-> cp, pt |-> pt]

\* datetime.now(): weekday() is 0 (Monday) .. 6, hour is 0 .. 23
WeekdayChoices == {0, 3, 6}
HourChoices == {0, 12}

\* One day's 24 hourly values: within 0..100 and different from day to day,
\* except at noon, where some days hold 150, a float or a negative number.
DataOf(d) ==
    [h \in 1..24 |->
        IF h # 13 THEN IntV((7 * d + 3 * (h - 1)) % 101)
        ELSE IF d = 0 THEN IntV(150)
        ELSE IF d = 3 THEN FloatV(376)
        ELSE IF d = 6 THEN IntV(-5)
        ELSE IntV(100)]

GridMissing == Grid("missing", <<>>)
GridNone == Grid("none", <<>>)
GridEmpty == Grid("list", <<>>)
GridFull == Grid("list", [d \in 1..7 |-> Day(TRUE, DataOf(d - 1))])
\* only Monday .. Wednesday
GridShort == Grid("list", [d \in 1..3 |-> Day(TRUE, DataOf(d - 1))])
\* Thursday's entry is malformed (no "data" key)
GridBadDay ==
    Grid("list", [d \in 1..7 |-> IF d = 4 THEN Day(FALSE, <<>>) ELSE Day(TRUE, DataOf(d - 1))])
\* every day has only the hours 0 .. 11
GridHalfDay == Grid("list", [d \in 1..7 |-> Day(TRUE, SubSeq(DataOf(d - 1), 1, 12))])

Grids == {GridMissing, GridNone, GridEmpty, GridFull, GridShort, GridBadDay, GridHalfDay}

LiveValues == {NoneV, IntV(0), IntV(42), IntV(150), IntV(-5), FloatV(996), NaNV, StrV}

EmptyResult == Snapshot("empty", "None", "None", NoneV, GridMissing)
OddResult == Snapshot("list", "None", "None", NoneV, GridMissing)

\* a mapping for venue A (grids with data for Monday) or venue B
Mapping(cp, g) ==
    Snapshot("dict", IF g \in {GridFull, GridShort, GridHalfDay} THEN "A" ELSE "B",
             IF g \in {GridFull, GridShort, GridHalfDay} THEN "A St" ELSE "B St", cp, g)

\* the mappings a fetch can return: every live value with the full grid,
\* and every grid with and without a live value
DictSnapshots ==
    { Mapping(cp, GridFull) : cp \in LiveValues }
    \cup { Mapping(cp, g) : cp \in {NoneV, IntV(42)}, g \in Grids }

Results == DictSnapshots \cup {EmptyResult, OddResult}

\* `if result:`
Truthy(result) == result.shape # "empty"

(***************************************************************************)
(* Fetch outcomes: a result, or one of the exceptions the retry loop       *)
(* tells apart.  An HTTPError carries a status code or no response.        *)
(***************************************************************************)
Outcome(k, hasStatus, code, result) ==
    [k |-> k, hasStatus |-> hasStatus, code |-> code, result |-> result]

StatusCodes == {404, 429, 499, 500}

ErrorOutcomes ==
    { Outcome(k, FALSE, 0, EmptyResult) : k \in {"Timeout", "ConnectError", "Exception"} }
    \cup { Outcome("HTTPError", TRUE, c, EmptyResult) : c \in StatusCodes }
    \cup { Outcome("HTTPError", FALSE, 0, EmptyResult) }

ResultOutcomes == { Outcome("result", FALSE, 0, r) : r \in Results }

FetchOutcomes == ErrorOutcomes \cup ResultOutcomes

(***************************************************************************)
(* Attributes and readings.                                                *)
(***************************************************************************)
NoCurve == [has |-> FALSE, data |-> <<>>]
Curve(data) == [has |-> TRUE, data |-> data]

\* the attributes dict; days[1] is popularity_monday .. days[7] popularity_sunday
Attributes(maps_name, address, is_live, days) ==
    [maps_name |-> maps_name, address |-> address,
     popularity_is_live |-> is_live, days |-> days]

InitialAttributes == Attributes("None", "None", "None", [d \in 1..7 |-> NoCurve])

\* pop = result.get("populartimes", [])
PopList(result) == IF result.pt.kind = "list" THEN result.pt.days ELSE <<>>

\* `pop[d]["data"] if len(pop) > d else None` raises for a malformed day, and
\* len(pop) raises when the value under "populartimes" is None
DayRaises(result, d) ==
    \/ result.pt.kind = "none"
    \/ Len(PopList(result)) > d /\ ~PopList(result)[d + 1].ok

DayValue(result, d) ==
    IF Len(PopList(result)) > d THEN Curve(PopList(result)[d + 1].data) ELSE NoCurve

\* The seven assignments run in order inside one try: the first one that
\* raises ends the block, and the days from it on keep what they held.
FirstRaise(result) ==
    IF \E d \in 0..6 : DayRaises(result, d)
    THEN CHOOSE d \in 0..6 : DayRaises(result, d) /\ \A e \in 0..(d - 1) : ~DayRaises(result, e)
    ELSE 7

WeekdayCurves(result, before) ==
    [d \in 1..7 |-> IF d - 1 < FirstRaise(result) THEN DayValue(result, d - 1) ELSE before[d]]

\* result["populartimes"][weekday_index]["data"][hour_index] does not raise
HasSlot(result, weekday, hour) ==
    /\ result.pt.kind = "list"
    /\ weekday < Len(result.pt.days)
    /\ result.pt.days[weekday + 1].ok
    /\ hour < Len(result.pt.days[weekday + 1].data)

\* a lookup that takes Sunday for weekday 0
SlotSundayFirst(result, weekday, hour) ==
    result.pt.days[((weekday + 1) % 7) + 1].data[hour + 1]

Slot(result, weekday, hour) == result.pt.days[weekday + 1].data[hour + 1]

\* a clamp without the lower bound
ClampUpperOnly(popularity) == IntV(Min(100, PyInt(popularity)))

\* max(0, min(100, int(popularity)))
Clamp(popularity) == IntV(Max(0, Min(100, PyInt(popularity))))

(***************************************************************************)
(* What one call of the coordinator's update method ends with: a returned  *)
(* reading ("success"), a raised UpdateFailed, or another exception that   *)
(* leaves the method as it is ("raw").                                     *)
(***************************************************************************)
NoExc == [k |-> "None", hasStatus |-> FALSE, code |-> 0]
Exc(o) == [k |-> o.k, hasStatus |-> o.hasStatus, code |-> o.code]
\* UpdateFailed(f"No data returned for '{address}'"), raised for a falsy result
NoDataExc == [k |-> "UpdateFailed", hasStatus |-> FALSE, code |-> 0]

NoReturn ==
    [kind |-> "none", msg |-> "", cause |-> NoExc, state |-> NoneV,
     attributes |-> InitialAttributes]
Returned(state, attributes) ==
    [kind |-> "success", msg |-> "", cause |-> NoExc, state |-> state,
     attributes |-> attributes]
Raised(kind, msg, cause) ==
    [kind |-> kind, msg |-> msg, cause |-> cause, state |-> NoneV,
     attributes |-> InitialAttributes]

\* a fallback that reports 0 when the historical slot is absent
FallbackZero(result, weekday, hour) ==
    IF result.cp # NoneV
    THEN [raises |-> FALSE, popularity |-> result.cp, is_live |-> "True"]
    ELSE IF HasSlot(result, weekday, hour)
    THEN [raises |-> FALSE, popularity |-> Slot(result, weekday, hour), is_live |-> "False"]
    ELSE [raises |-> FALSE, popularity |-> IntV(0), is_live |-> "False"]

\* `if popularity is None:` ... `else:`: the live value, or the historical
\* slot of the current weekday and hour, or KeyError/IndexError/TypeError
Fallback(result, weekday, hour) ==
    IF result.cp # NoneV
    THEN [raises |-> FALSE, popularity |-> result.cp, is_live |-> "True"]
    ELSE IF HasSlot(result, weekday, hour)
    THEN [raises |-> FALSE, popularity |-> Slot(result, weekday, hour), is_live |-> "False"]
    ELSE [raises |-> TRUE, popularity |-> NoneV, is_live |-> "None"]

\* the part of _async_update_data after the retry loop
Normalize(result, weekday, hour) ==
    IF result.shape # "dict"
    THEN Raised("raw", "AttributeError", NoExc)
    ELSE LET days == WeekdayCurves(result, InitialAttributes.days)
             fb == Fallback(result, weekday, hour)
             attributes == Attributes(result.name, result.address, fb.is_live, days)
         IN IF fb.raises
            THEN Raised("UpdateFailed", "Historical popularity not available for fallback", NoExc)
            ELSE IF ~IsNumeric(fb.popularity) THEN Returned(fb.popularity, attributes)
            ELSE IF IntRaises(fb.popularity) THEN Raised("raw", "ValueError", NoExc)
            ELSE Returned(Clamp(fb.popularity), attributes)

(***************************************************************************)
(* The retry loop of _async_update_data.                                   *)
(***************************************************************************)
\* a retry loop that retries every HTTP error that has a response
RetryableStatusAny(hasStatus, code) == hasStatus

\* a retry loop that knows only the listed status codes
RetryableStatusListed(hasStatus, code) == hasStatus /\ code \in {429, 502, 503, 504}

\* status in (429, 502, 503, 504) or (status is not None and status >= 500)
RetryableStatus(hasStatus, code) ==
    hasStatus /\ (code \in {429, 502, 503, 504} \/ code >= 500)

\* the handler an outcome of the fetch runs into
Handler(o) ==
    IF o.k = "result" THEN (IF Truthy(o.result) THEN "break" ELSE "empty")
    ELSE IF o.k \in {"Timeout", "ConnectError"} THEN "network"
    ELSE IF o.k = "HTTPError" THEN "http"
    ELSE "unexpected"

\* handlers that take an empty result for a permanent failure
RetryableEmptyNever(o, n) ==
    CASE Handler(o) = "network" -> TRUE
      [] Handler(o) = "http" -> RetryableStatus(o.hasStatus, o.code)
      [] OTHER -> FALSE

\* `retryable` as the handlers set it
Retryable(o, n) ==
    CASE Handler(o) = "network" -> TRUE
      [] Handler(o) = "http" -> RetryableStatus(o.hasStatus, o.code)
      [] Handler(o) = "empty" -> n < max_attempts
      [] OTHER -> FALSE

\* `last_exc` as the handlers set it
LastExc(o) == IF Handler(o) = "empty" THEN NoDataExc ELSE Exc(o)

\* sleep_for = min(delay, max_delay)
SleepFor(d) == Min(d, max_delay)
\* the upper end of random.uniform(0, 0.4 * sleep_for)
JitterMax(sleep_for) == (4 * sleep_for) \div 10
JitterChoices(sleep_for) ==
    { (k * JitterMax(sleep_for)) \div JitterSteps : k \in 0..JitterSteps }
\* a backoff that grows by the initial delay instead of doubling
NextDelayLinear(d) == Min(d + InitialDelayMs, max_delay)

\* delay = min(delay * 2, max_delay)
NextDelay(d) == Min(d * 2, max_delay)

\* a loop that sleeps and retries once more after the last attempt
RetriesOnceMore(o, n) == n <= max_attempts /\ Retryable(o, n)

\* `if attempt < max_attempts and retryable:`
Retries(o, n) == n < max_attempts /\ Retryable(o, n)

(***************************************************************************)
(* Strings the query derivation inspects.                                  *)
(***************************************************************************)
Alphabet == {"a", "A", "b", " ", ","}

\* str.lower() on one character
LowerChar(c) == IF c = "A" THEN "a" ELSE c
Lower(str) == [i \in 1..Len(str) |-> LowerChar(str[i])]

RECURSIVE LStrip(_)
LStrip(str) ==
    IF str # <<>> /\ Head(str) = " " THEN LStrip(Tail(str)) ELSE str

RECURSIVE RStrip(_)
RStrip(str) ==
    IF str # <<>> /\ str[Len(str)] = " " THEN RStrip(SubSeq(str, 1, Len(str) - 1)) ELSE str

\* str.strip()
Strip(str) == RStrip(LStrip(str))

\* str.startswith(prefix)
StartsWith(str, prefix) ==
    Len(prefix) <= Len(str) /\ SubSeq(str, 1, Len(prefix)) = prefix

StringsUpTo(n) == UNION { [1..k -> Alphabet] : k \in 0..n }

\* a derivation that always puts the name in front of a non-empty address
CoordinatorQueryAlwaysJoins(name, address) ==
    LET name_s == Strip(name)
        addr_s == Strip(address)
    IN IF name_s # <<>>
       THEN IF addr_s # <<>> THEN name_s \o <<",", " ">> \o addr_s ELSE name_s
       ELSE addr_s

\* the query of _async_update_data
CoordinatorQuery(name, address) ==
    LET name_s == Strip(name)
        addr_s == Strip(address)
        n == Lower(name_s)
        a == Lower(addr_s)
    IN IF name_s # <<>>
       THEN IF StartsWith(a, n) \/ StartsWith(a, n \o <<",">>) \/ StartsWith(a, n \o <<" ">>)
            THEN addr_s
            ELSE IF addr_s # <<>> THEN name_s \o <<",", " ">> \o addr_s ELSE name_s
       ELSE addr_s

\* the query of PopularTimesSensor.async_update
SensorQuery(name, address) ==
    LET nm == Strip(name)
        addr == Strip(address)
        n == Lower(nm)
        a == Lower(addr)
    IN IF nm # <<>>
       THEN IF StartsWith(a, n) \/ StartsWith(a, n \o <<",">>) \/ StartsWith(a, n \o <<" ">>)
            THEN addr
            ELSE IF addr # <<>> THEN nm \o <<",", " ">> \o addr ELSE nm
       ELSE addr

(***************************************************************************)
(* The config flow: the unique id of an address and the clean-up of a      *)
(* YAML name and address (config_flow.py).  Besides the letters, these     *)
(* strings hold "(", ")", "'" and "_".                                     *)
(***************************************************************************)
\* address.strip().lower()
NormAddr(address) == Lower(Strip(address))

\* _addr_unique_id: "addr_" and 12 hex digits of the SHA-256 of the trimmed,
\* lower-cased address.  The digest stands for its input: two addresses
\* have the same id exactly when they are equal after trimming and
\* lower-casing (no collisions).
AddrUniqueId(address) == <<"addr_">> \o NormAddr(address)

\* _strip_quotes: trimmed, and one pair of surrounding quotes removed
StripQuotes(text) ==
    LET t == Strip(text)
    IN IF \/ t # <<>> /\ Head(t) = "'" /\ t[Len(t)] = "'"
          \/ t # <<>> /\ Head(t) = "\"" /\ t[Len(t)] = "\""
       THEN Strip(SubSeq(t, 2, Len(t) - 1))
       ELSE t

\* _looks_like_slug: all lower case and with an underscore
LooksLikeSlug(text) ==
    LET t == Strip(text)
    IN t = Lower(t) /\ \E i \in 1..Len(t) : t[i] = "_"

\* str.find(")"): the 0-based index of the first ")", -1 when there is none
FindClose(str) ==
    IF \E i \in 1..Len(str) : str[i] = ")"
    THEN (CHOOSE i \in 1..Len(str) : str[i] = ")" /\ \A j \in 1..(i - 1) : str[j] # ")") - 1
    ELSE -1

\* str.lstrip(", ")
RECURSIVE LStripCommaSpace(_)
LStripCommaSpace(str) ==
    IF str # <<>> /\ Head(str) \in {",", " "} THEN LStripCommaSpace(Tail(str)) ELSE str

\* _extract_name_and_clean_address: a leading "(Name)" is taken off the
\* address, and used as the name when the current name is empty or a slug
ExtractNameAndCleanAddress(current_name, address) ==
    LET cur_name == Strip(current_name)
        addr == StripQuotes(address)
        end == FindClose(addr)
        extracted == Strip(SubSeq(addr, 2, end))
        rest == Strip(LStripCommaSpace(SubSeq(addr, end + 2, Len(addr))))
    IN IF addr # <<>> /\ Head(addr) = "(" /\ end > 0 /\ extracted # <<>>
       THEN [name |-> IF cur_name = <<>> \/ LooksLikeSlug(cur_name) THEN extracted ELSE cur_name,
             address |-> IF rest # <<>> THEN rest ELSE addr]
       ELSE [name |-> IF cur_name # <<>> THEN cur_name ELSE addr, address |-> addr]

(***************************************************************************)
(* The stored retry policy (entry.options) and the options flow.           *)
(***************************************************************************)
Policy(interval, attempts, initial, maximum) ==
    [update_interval_minutes |-> interval, max_attempts |-> attempts,
     backoff_initial_ms |-> initial, backoff_max_ms |-> maximum]

\* the defaults of the options flow when nothing is stored: 10, 4, 1.0, 8.0
DefaultPolicy == Policy(10, 4, 1000, 8000)

Options(stored, name, address, policy) ==
    [stored |-> stored, name |-> name, address |-> address, policy |-> policy]

\* entry.options == {}
NoOptions == Options(FALSE, <<>>, <<>>, DefaultPolicy)

\* entry.options.get(CONF_NAME, entry.data.get(CONF_NAME, ""))
EntryName(d, opts) == IF opts.stored THEN opts.name ELSE d.name
EntryAddress(d, opts) == IF opts.stored THEN opts.address ELSE d.address

\* clamps that do not lift the maximum delay to the initial one
AdvancedPolicyNoFloor(interval, attempts, initial, maximum) ==
    Policy(Max(1, Min(120, interval)), Max(1, Min(8, attempts)),
           Max(100, Min(30000, initial)), Min(120000, maximum))

\* async_step_advanced: the submitted numbers clamped to their ranges
AdvancedPolicy(interval, attempts, initial, maximum) ==
    LET backoff_initial == Max(100, Min(30000, initial))
    IN Policy(Max(1, Min(120, interval)), Max(1, Min(8, attempts)),
              backoff_initial, Max(backoff_initial, Min(120000, maximum)))

(***************************************************************************)
(* State.                                                                  *)
(***************************************************************************)
VARIABLES
    data,             \* entry.data: name and address
    options,          \* entry.options
    flowStep,         \* the options flow: "closed" or showing the "advanced" form
    _basic,           \* the options flow's stashed basic fields
    update_interval,  \* the coordinator's update_interval, in minutes
    configured,       \* the policy entry.options held when the coordinator was created
    pc,               \* _async_update_data: "idle", "fetching", "sleeping", "done"
    query,            \* its query
    attempt,          \* its loop variable
    delay,            \* its delay, in ms
    last_exc,         \* its last_exc
    result,           \* its result: what the last fetch returned
    now,              \* the weekday and hour datetime.now() gave it
    calls,            \* the fetches of this call, in order: handler taken and exception
    sleeps,           \* the sleeps of this call, in order: base and total, in ms
    outcome,          \* what this call returned or raised
    cancelled,        \* a cancellation was delivered to this call
    _name,            \* the sensor's _name
    _address,         \* the sensor's _address
    _state,           \* the sensor's _state
    _attributes,      \* the sensor's _attributes
    sensorPc,         \* async_update: "idle" or "fetching"
    sensorQuery,      \* its query
    sensorLast,       \* how the last async_update ended: "none", "ok", "failed", "cancelled"
    skip_next_reload, \* hass.data[DOMAIN]["skip_next_reload"], one flag for the domain
    skipSetter,       \* the entry whose title sync last set the flag, "none" before
    entries,          \* the config entries of the domain, by entry id
    setupPc,          \* async_setup_entry / async_unload_entry of entry "A": where it stands
    coordinator,      \* the coordinator the latest setup call created (a serial number)
    stored,           \* domain_data[entry.entry_id]["coordinator"], 0 when nothing is stored
    forwarded,        \* the latest setup call has forwarded the sensor platform
    config_entries,   \* hass.config_entries.async_entries(DOMAIN): the entries created
    yaml,             \* the YAML platform setups of this run, by YAML line
    yaml_migration_notified,  \* hass.data[DOMAIN]["yaml_migration_notified"]
    notifications,    \* "YAML migrated" notifications created in this run
    registry,         \* the entity registry: the entities of platform "populartimes"
    addresses,        \* per config entry, the address in entry.data and in entry.options
    platformPc,       \* per config entry, where the sensor platform's setup stands
    stateSource       \* where _state was taken from: "never" set, a "live" value, the "grid"

entryVars == <<data, options>>
flowVars == <<flowStep, _basic>>
coordinatorVars == <<update_interval, configured>>
cycleVars == <<pc, query, attempt, delay, last_exc, result, now, calls, sleeps, outcome, cancelled>>
sensorVars ==
    <<_name, _address, _state, _attributes, sensorPc, sensorQuery, sensorLast, stateSource>>
domainVars == <<skip_next_reload, skipSetter, entries>>
setupVars == <<setupPc, coordinator, stored, forwarded>>
yamlVars == <<config_entries, yaml, yaml_migration_notified, notifications>>
registryVars == <<registry, addresses, platformPc>>
hostVars == <<setupVars, yamlVars, registryVars>>
vars == <<entryVars, flowVars, coordinatorVars, cycleVars, sensorVars, domainVars, hostVars>>

\* datetime.now() not read
NoClock == [read |-> FALSE, weekday |-> 0, hour |-> 0]
Clock(weekday, hour) == [read |-> TRUE, weekday |-> weekday, hour |-> hour]

DefaultData == [name |-> <<"a">>, address |-> <<"b">>]

\* The config entries of the domain.  conf is the entry's name and address
\* (options preferred over data), entity the name and address its sensor
\* entity holds, loaded whether the entry is set up (update listener
\* registered), pending the causes of the listener invocations the host has
\* scheduled and not yet run, lastRun what the last invocation did.
EntryIds == {"A", "B"}
NotRun == [cause |-> "none", did |-> "none", by |-> "none"]
Ran(cause, did, by) == [cause |-> cause, did |-> did, by |-> by]
Entry(conf, title, loaded, entity, pending, lastRun) ==
    [conf |-> conf, title |-> title, loaded |-> loaded, entity |-> entity,
     pending |-> pending, lastRun |-> lastRun]

\* The YAML lines of the sensor platform: a slug name with "(A), a" as
\* address, name "a" with address " A ", name "a" with address "b".
YamlIds == {"y1", "y2", "y3"}
YamlConfig(y) ==
    CASE y = "y1" -> [name |-> <<"a", "_", "b">>, address |-> <<"(", "A", ")", ",", " ", "a">>]
      [] y = "y2" -> [name |-> <<"a">>, address |-> <<" ", "A", " ">>]
      [] OTHER -> [name |-> <<"a">>, address |-> <<"b">>]

\* One platform setup: where it stands, whether an entry created from its
\* line existed when it started, whether it started an import flow and
\* whether it created the notification.
YamlIdle == [pc |-> "idle", owned |-> FALSE, imported |-> FALSE, notified |-> FALSE]

\* a config entry: its title, its data, its unique id, and the YAML line an
\* import flow created it from ("user" for the user flow)
ConfigEntry(title, name, address, unique_id, line) ==
    [title |-> title, name |-> name, address |-> address, unique_id |-> unique_id,
     line |-> line]

\* The entity registry.  An entity is its entity_id (a number here), its
\* unique id and the config entry it belongs to.
RegistryEntry(entity_id, unique_id, config_entry_id) ==
    [entity_id |-> entity_id, unique_id |-> unique_id, config_entry_id |-> config_entry_id]

\* stable_unique_id = f"populartimes_{entry.entry_id}"
StableUniqueId(e) == <<"populartimes_", e>>

\* f"populartimes_{digest}" with the sha256 digest of the address as it is
\* stored: distinct addresses have distinct digests
LegacyUniqueId(addr) == <<"populartimes_", "sha256">> \o addr

EntityNumber(e) == IF e = "A" THEN 1 ELSE 2

\* an entry the config flow created with title = name, set up
LoadedEntry(d) == Entry(d, d.name, TRUE, d, <<>>, NotRun)

\* The entry as the config flow created it, the coordinator as
\* async_setup_entry built and stored it, the sensor as its constructor
\* left it.
InitBase(d) ==
    /\ data = d
    /\ options = NoOptions
    /\ flowStep = "closed"
    /\ _basic = [name |-> <<>>, address |-> <<>>]
    /\ update_interval = UpdateIntervalMinutes
    /\ configured = DefaultPolicy
    /\ pc = "idle"
    /\ query = <<>>
    /\ attempt = 0
    /\ delay = 0
    /\ last_exc = NoExc
    /\ result = EmptyResult
    /\ now = NoClock
    /\ calls = <<>>
    /\ sleeps = <<>>
    /\ outcome = NoReturn
    /\ cancelled = FALSE
    /\ _name = d.name
    /\ _address = d.address
    /\ _state = NoneV
    /\ _attributes = InitialAttributes
    /\ sensorPc = "idle"
    /\ sensorQuery = <<>>
    /\ sensorLast = "none"
    /\ stateSource = "never"
    /\ skip_next_reload = FALSE
    /\ skipSetter = "none"
    /\ entries = [e \in EntryIds |-> LoadedEntry(d)]
    /\ setupPc = "loaded"
    /\ coordinator = 1
    /\ stored = 1
    /\ forwarded = TRUE
    /\ config_entries = {ConfigEntry(d.name, d.name, d.address, AddrUniqueId(d.address), "user")}
    /\ yaml = [y \in YamlIds |-> YamlIdle]
    /\ yaml_migration_notified = FALSE
    /\ notifications = 0

\* ... with the sensor entity of every entry registered under its stable
\* unique id
InitWith(d) ==
    /\ InitBase(d)
    /\ registry = {RegistryEntry(EntityNumber(e), StableUniqueId(e), e) : e \in EntryIds}
    /\ addresses = [e \in EntryIds |-> [data |-> d.address, options |-> <<>>]]
    /\ platformPc = [e \in EntryIds |-> "added"]

Init == InitWith(DefaultData)

(***************************************************************************)
(* _async_update_data, one action per stretch between two awaits.          *)
(***************************************************************************)
\* The coordinator calls its update method: the query is built and the
\* first fetch is handed to the executor.
Refresh ==
    /\ pc \in {"idle", "done"}
    /\ pc' = "fetching"
    /\ query' = CoordinatorQuery(EntryName(data, options), EntryAddress(data, options))
    /\ attempt' = 1
    /\ delay' = InitialDelayMs
    /\ last_exc' = NoExc
    /\ result' = EmptyResult
    /\ now' = NoClock
    /\ calls' = <<>>
    /\ sleeps' = <<>>
    /\ outcome' = NoReturn
    /\ cancelled' = FALSE
    /\ UNCHANGED <<entryVars, flowVars, coordinatorVars, sensorVars, domainVars, hostVars>>

Call(o) == [handler |-> Handler(o), exc |-> IF Handler(o) = "break" THEN NoExc ELSE LastExc(o)]

\* datetime.now() is read only for a mapping without current_popularity
ReadsClock(o) == o.k = "result" /\ o.result.shape = "dict" /\ o.result.cp = NoneV
ClockWeekdays(o) == IF ReadsClock(o) THEN WeekdayChoices ELSE {0}
ClockHours(o) == IF ReadsClock(o) THEN HourChoices ELSE {0}

\* what the call ends with when the fetch outcome o ends it
Ending(o, exc, weekday, hour) ==
    CASE Handler(o) = "break" -> Normalize(o.result, weekday, hour)
      [] Handler(o) = "unexpected" -> Raised("UpdateFailed", "Unexpected error", Exc(o))
      [] Handler(o) = "http" /\ ~Retryable(o, 0) -> Raised("UpdateFailed", "HTTP error", Exc(o))
      [] OTHER -> Raised("UpdateFailed", "Network error", exc)

\* The awaited fetch ends with outcome o; the loop body runs to the next
\* await (the sleep) or to the end of the call.
FetchReturns(o, weekday, hour) ==
    /\ pc = "fetching"
    /\ calls' = Append(calls, Call(o))
    /\ last_exc' = IF Handler(o) \in {"break", "unexpected"} THEN last_exc ELSE LastExc(o)
    /\ result' = IF o.k = "result" THEN o.result ELSE result
    /\ now' = IF ReadsClock(o) THEN Clock(weekday, hour) ELSE now
    /\ IF Retries(o, attempt)
       THEN /\ \E jitter \in JitterChoices(SleepFor(delay)) :
                 sleeps' = Append(sleeps, [base |-> SleepFor(delay),
                                           total |-> SleepFor(delay) + jitter])
            /\ pc' = "sleeping"
            /\ outcome' = outcome
       ELSE /\ sleeps' = sleeps
            /\ pc' = "done"
            /\ outcome' = Ending(o, last_exc', weekday, hour)
    /\ UNCHANGED <<query, attempt, delay, cancelled>>
    /\ UNCHANGED <<entryVars, flowVars, coordinatorVars, sensorVars, domainVars, hostVars>>

\* asyncio.sleep returns: the delay doubles and the next attempt starts.
SleepEnds ==
    /\ pc = "sleeping"
    /\ delay' = NextDelay(delay)
    /\ attempt' = attempt + 1
    /\ pc' = "fetching"
    /\ UNCHANGED <<query, last_exc, result, now, calls, sleeps, outcome, cancelled>>
    /\ UNCHANGED <<entryVars, flowVars, coordinatorVars, sensorVars, domainVars, hostVars>>

\* the fetch ends in one of the ways the model's inputs cover
Fetched ==
    \E o \in FetchOutcomes : \E weekday \in ClockWeekdays(o), hour \in ClockHours(o) :
        FetchReturns(o, weekday, hour)

Next ==
    \/ Refresh
    \/ Fetched
    \/ SleepEnds

\* The refresh engine: the coordinator's update method, called again and again.
Spec == Init /\ [][Next]_vars


(***************************************************************************)
(* PopularTimesSensor.async_update: the entity polls on its own, with one  *)
(* fetch and no retry, and writes into its own _state and _attributes.     *)
(***************************************************************************)
\* the `if popularity is None:` block of async_update
SensorFallback(res, weekday, hour) ==
    IF res.cp # NoneV
    THEN [raises |-> FALSE, popularity |-> res.cp, is_live |-> "True"]
    ELSE IF HasSlot(res, weekday, hour)
    THEN [raises |-> FALSE, popularity |-> Slot(res, weekday, hour), is_live |-> "False"]
    ELSE [raises |-> TRUE, popularity |-> NoneV, is_live |-> "None"]

\* the value `self._state = popularity` stores: the live value, or the slot
\* of the historical grid when there is no live value
SourceOf(res) == IF res.cp # NoneV THEN "live" ELSE "grid"

Kept(state, attributes) == [state |-> state, attributes |-> attributes, last |-> "failed"]
Stored(state, attributes) == [state |-> state, attributes |-> attributes, last |-> "ok"]

\* what async_update leaves in _state and _attributes once the fetch has
\* ended with outcome o
SensorUpdate(state, attributes, o, weekday, hour) ==
    IF o.k # "result" \/ ~Truthy(o.result) \/ o.result.shape # "dict"
    THEN Kept(state, attributes)
    ELSE LET res == o.result
             meta == [attributes EXCEPT !.address = res.address,
                                        !.maps_name = res.name,
                                        !.days = WeekdayCurves(res, attributes.days)]
             fb == SensorFallback(res, weekday, hour)
             flagged == [meta EXCEPT !.popularity_is_live = fb.is_live]
         IN IF fb.raises THEN Kept(state, meta)
            ELSE IF ~IsNumeric(fb.popularity) THEN Stored(fb.popularity, flagged)
            ELSE IF IntRaises(fb.popularity) THEN Kept(state, flagged)
            ELSE Stored(Clamp(fb.popularity), flagged)

\* async_update is called: the query is built and the fetch handed to the
\* executor.
SensorStart ==
    /\ sensorPc = "idle"
    /\ sensorPc' = "fetching"
    /\ sensorQuery' = SensorQuery(_name, _address)
    /\ UNCHANGED <<_name, _address, _state, _attributes, sensorLast, stateSource>>
    /\ UNCHANGED <<entryVars, flowVars, coordinatorVars, cycleVars, domainVars, hostVars>>

\* The awaited fetch ends with outcome o and async_update runs to its end.
SensorFetchReturns(o, weekday, hour) ==
    /\ sensorPc = "fetching"
    /\ sensorPc' = "idle"
    /\ LET u == SensorUpdate(_state, _attributes, o, weekday, hour)
       IN /\ _state' = u.state
          /\ _attributes' = u.attributes
          /\ sensorLast' = u.last
          /\ stateSource' = IF u.last = "ok" THEN SourceOf(o.result) ELSE stateSource
    /\ UNCHANGED <<_name, _address, sensorQuery>>
    /\ UNCHANGED <<entryVars, flowVars, coordinatorVars, cycleVars, domainVars, hostVars>>

SensorFetched ==
    \E o \in FetchOutcomes : \E weekday \in ClockWeekdays(o), hour \in ClockHours(o) :
        SensorFetchReturns(o, weekday, hour)

SensorNext ==
    \/ SensorStart
    \/ SensorFetched

\* The sensor entity, polled again and again.
SensorSpec == Init /\ [][SensorNext]_vars

(***************************************************************************)
(* The query derivation on its own: an entry with any name and address,    *)
(* the sensor constructed from it, and the two places that build a query.  *)
(***************************************************************************)
QueryInit ==
    \E name \in StringsUpTo(MaxNameLen), address \in StringsUpTo(MaxAddrLen) :
        InitWith([name |-> name, address |-> address])

QueryNext ==
    \/ Refresh
    \/ SensorStart

QuerySpec == QueryInit /\ [][QueryNext]_vars

(***************************************************************************)
(* The options flow and the creation of the coordinator.                   *)
(***************************************************************************)
\* async_step_init with user input: the basic fields are stashed and the
\* advanced form shown, or the options are stored with the policy they had.
StepInit(name, address, advanced) ==
    /\ flowStep = "closed"
    /\ IF advanced
       THEN /\ _basic' = [name |-> name, address |-> address]
            /\ flowStep' = "advanced"
            /\ options' = options
       ELSE /\ options' = Options(TRUE, name, address, options.policy)
            /\ UNCHANGED flowVars
    /\ UNCHANGED <<data, coordinatorVars, cycleVars, sensorVars, domainVars, hostVars>>

\* async_step_advanced with user input: the options are stored with the
\* stashed basic fields and the clamped numbers.
StepAdvanced(interval, attempts, initial, maximum) ==
    /\ flowStep = "advanced"
    /\ options' = Options(TRUE, _basic.name, _basic.address,
                          AdvancedPolicy(interval, attempts, initial, maximum))
    /\ flowStep' = "closed"
    /\ UNCHANGED <<data, _basic, coordinatorVars, cycleVars, sensorVars, domainVars, hostVars>>

\* async_setup_entry builds a coordinator (on setup and on every reload):
\* a new update method with nothing in flight, polled every 10 minutes.
CreateCoordinator ==
    /\ update_interval' = UpdateIntervalMinutes
    /\ configured' = options.policy
    /\ pc' = "idle"
    /\ query' = <<>>
    /\ attempt' = 0
    /\ delay' = 0
    /\ last_exc' = NoExc
    /\ result' = EmptyResult
    /\ now' = NoClock
    /\ calls' = <<>>
    /\ sleeps' = <<>>
    /\ outcome' = NoReturn
    /\ cancelled' = FALSE
    /\ UNCHANGED <<entryVars, flowVars, sensorVars, domainVars, hostVars>>

\* numbers a user submits in the advanced form: minutes, attempts, ms, ms
IntervalInputs == {5, 500}
AttemptsInputs == {2, 9}
InitialInputs == {50, 2000}
MaximumInputs == {1000, 200000}

PolicyOutcomes ==
    { Outcome("Timeout", FALSE, 0, EmptyResult),
      Outcome("result", FALSE, 0, Mapping(IntV(42), GridFull)) }

PolicyFetched == \E o \in PolicyOutcomes : FetchReturns(o, 0, 0)

PolicyNext ==
    \/ \E advanced \in BOOLEAN : StepInit(DefaultData.name, DefaultData.address, advanced)
    \/ \E interval \in IntervalInputs, attempts \in AttemptsInputs,
          initial \in InitialInputs, maximum \in MaximumInputs :
          StepAdvanced(interval, attempts, initial, maximum)
    \/ CreateCoordinator
    \/ Refresh
    \/ PolicyFetched
    \/ SleepEnds

\* The stored policy and the refresh engine that should run with it.
PolicySpec == Init /\ [][PolicyNext]_vars

(***************************************************************************)
(* The options flow on its own: any sequence of submissions, basic-only or *)
(* basic followed by advanced, with numbers below, within and above the    *)
(* ranges of the form.                                                     *)
(***************************************************************************)
FlowNames == {DefaultData.name, <<"b">>}
FlowIntervals == IntervalInputs \cup {0}
FlowAttempts == AttemptsInputs \cup {0}
FlowInitials == InitialInputs \cup {40000}
FlowMaximums == MaximumInputs \cup {50}

FlowNext ==
    \/ \E name \in FlowNames, advanced \in BOOLEAN : StepInit(name, DefaultData.address, advanced)
    \/ \E interval \in FlowIntervals, attempts \in FlowAttempts,
          initial \in FlowInitials, maximum \in FlowMaximums :
          StepAdvanced(interval, attempts, initial, maximum)

FlowSpec == Init /\ [][FlowNext]_vars

(***************************************************************************)
(* The entry as Home Assistant runs it: the coordinator's timer calls the  *)
(* update method and, side by side, the entity platform polls the sensor   *)
(* every SCAN_INTERVAL.  The two fetch independently of each other, and    *)
(* either task can be cancelled while it is suspended (shutdown, unload).  *)
(***************************************************************************)
\* a cancellation that the loop takes for one more failed attempt
AfterCancelRetries(at) == IF at = "fetching" THEN "sleeping" ELSE "fetching"

\* Where the update method stands after asyncio.CancelledError is raised at
\* the await it is suspended in ("fetching" or "sleeping"): CancelledError
\* is a BaseException, no except clause of the loop catches it, and it
\* leaves the method.
AfterCancel(at) == "done"

\* The task running the update method is cancelled while it awaits the
\* fetch or the sleep.
Cancel ==
    /\ pc \in {"fetching", "sleeping"}
    /\ cancelled' = TRUE
    /\ pc' = AfterCancel(pc)
    /\ outcome' = IF pc' = "done" THEN Raised("cancelled", "CancelledError", NoExc) ELSE outcome
    /\ UNCHANGED <<query, attempt, delay, last_exc, result, now, calls, sleeps>>
    /\ UNCHANGED <<entryVars, flowVars, coordinatorVars, sensorVars, domainVars, hostVars>>

\* The task running async_update is cancelled while it awaits the fetch:
\* `except Exception` does not catch CancelledError, and nothing was
\* assigned before the await.
SensorCancel ==
    /\ sensorPc = "fetching"
    /\ sensorPc' = "idle"
    /\ sensorLast' = "cancelled"
    /\ UNCHANGED <<_name, _address, _state, _attributes, sensorQuery, stateSource>>
    /\ UNCHANGED <<entryVars, flowVars, coordinatorVars, cycleVars, domainVars, hostVars>>

IntegrationOutcomes ==
    { Outcome("Timeout", FALSE, 0, EmptyResult),
      Outcome("result", FALSE, 0, Mapping(IntV(42), GridFull)),
      Outcome("result", FALSE, 0, Mapping(IntV(150), GridFull)) }

IntegrationFetched == \E o \in IntegrationOutcomes : FetchReturns(o, 0, 0)

IntegrationSensorFetched == \E o \in IntegrationOutcomes : SensorFetchReturns(o, 0, 0)

IntegrationNext ==
    \/ Refresh
    \/ IntegrationFetched
    \/ SleepEnds
    \/ SensorStart
    \/ IntegrationSensorFetched
    \/ Cancel
    \/ SensorCancel

IntegrationSpec == Init /\ [][IntegrationNext]_vars

(***************************************************************************)
(* The config entries of the domain, their update listener and the title   *)
(* sync.  The host calls an entry's registered update listeners after      *)
(* every async_update_entry that changes the entry, each call a task of    *)
(* its own.                                                                *)
(***************************************************************************)
\* Listener invocations one entry can have scheduled at a time.
MaxPending == 2

ConfChoices ==
    { [name |-> <<"a">>, address |-> <<"b">>],
      [name |-> <<"b">>, address |-> <<"b">>],
      [name |-> <<"a">>, address |-> <<"a">>] }

\* `if desired_title and entry.title != desired_title:`
TitleOutOfSync(entry) == entry.conf.name # <<>> /\ entry.title # entry.conf.name

\* The update listener is called only for entries that have it registered.
Notified(entry, cause) ==
    IF entry.loaded THEN Append(entry.pending, cause) ELSE entry.pending

\* The user saves the options flow of entry e (or edits the entry while it
\* is not loaded): the host stores the new name and address and schedules
\* the listener.
UserEdit(e, conf) ==
    /\ conf # entries[e].conf
    /\ Len(entries[e].pending) < MaxPending
    /\ entries' = [entries EXCEPT ![e].conf = conf,
                                  ![e].pending = Notified(entries[e], "user")]
    /\ UNCHANGED <<skip_next_reload, skipSetter>>
    /\ UNCHANGED <<entryVars, flowVars, coordinatorVars, cycleVars, sensorVars, hostVars>>

\* async_unload_entry: the platforms are unloaded and the listener removed.
UnloadEntry(e) ==
    /\ entries[e].loaded
    /\ entries[e].pending = <<>>
    /\ entries' = [entries EXCEPT ![e].loaded = FALSE]
    /\ UNCHANGED <<skip_next_reload, skipSetter>>
    /\ UNCHANGED <<entryVars, flowVars, coordinatorVars, cycleVars, sensorVars, hostVars>>

\* async_setup_entry of entry e: the title sync (no listener is registered
\* yet, so the title update calls none), the sensor entity built from the
\* entry's name and address, the listener registered.
SetupEntry(e) ==
    /\ ~entries[e].loaded
    /\ IF TitleOutOfSync(entries[e])
       THEN /\ skip_next_reload' = TRUE
            /\ skipSetter' = e
       ELSE UNCHANGED <<skip_next_reload, skipSetter>>
    /\ entries' = [entries EXCEPT ![e].title = IF TitleOutOfSync(entries[e])
                                               THEN entries[e].conf.name
                                               ELSE entries[e].title,
                                  ![e].entity = entries[e].conf,
                                  ![e].loaded = TRUE]
    /\ UNCHANGED <<entryVars, flowVars, coordinatorVars, cycleVars, sensorVars, hostVars>>

\* _async_update_listener runs for the oldest scheduled invocation of entry
\* e: skipped when the flag is set, else the title sync, else the reload
\* (unload and setup, which builds the sensor entity anew).
UpdateListener(e) ==
    /\ entries[e].pending # <<>>
    /\ LET cause == Head(entries[e].pending)
           rest == Tail(entries[e].pending)
       IN IF skip_next_reload
          THEN /\ skip_next_reload' = FALSE
               /\ skipSetter' = skipSetter
               /\ entries' = [entries EXCEPT ![e].pending = rest,
                                             ![e].lastRun = Ran(cause, "skipped", skipSetter)]
          ELSE IF TitleOutOfSync(entries[e])
          THEN /\ skip_next_reload' = TRUE
               /\ skipSetter' = e
               /\ entries' = [entries EXCEPT ![e].title = entries[e].conf.name,
                                             ![e].pending = Append(rest, "title"),
                                             ![e].lastRun = Ran(cause, "titled", e)]
          ELSE /\ UNCHANGED <<skip_next_reload, skipSetter>>
               /\ entries' = [entries EXCEPT ![e].entity = entries[e].conf,
                                             ![e].pending = rest,
                                             ![e].lastRun = Ran(cause, "reloaded", e)]
    /\ UNCHANGED <<entryVars, flowVars, coordinatorVars, cycleVars, sensorVars, hostVars>>

DomainNext ==
    \/ \E e \in EntryIds, conf \in ConfChoices : UserEdit(e, conf)
    \/ \E e \in EntryIds : UnloadEntry(e)
    \/ \E e \in EntryIds : SetupEntry(e)
    \/ \E e \in EntryIds : UpdateListener(e)

DomainSpec == Init /\ [][DomainNext]_vars

(***************************************************************************)
(* async_setup_entry and async_unload_entry of entry "A", one action per   *)
(* stretch between two awaits: the first refresh (line 160), the forward   *)
(* of the sensor platform (line 172), the unload of the platforms (line    *)
(* 181).  The host sets an entry up again after a failed setup.            *)
(***************************************************************************)
\* Setup calls of one entry the model follows.
MaxSetups == 3

\* a setup that goes on whatever the first refresh ended with
FirstRefreshAny(o) == TRUE

\* async_config_entry_first_refresh returns when the update method returned
\* a reading, and raises ConfigEntryNotReady otherwise
FirstRefreshOk(o) == o.kind = "success"

\* {"coordinator": coordinator, **domain_data.get(entry.entry_id, {})}: a
\* key of the mapping already stored comes later and wins
StoredAfterSetup(new, old) == IF old # 0 THEN old ELSE new

\* async_setup_entry is called: the coordinator is created and its first
\* refresh awaited (the update method runs up to its first fetch).
SetupBegins ==
    /\ setupPc \in {"unloaded", "failed"}
    /\ coordinator < MaxSetups
    /\ setupPc' = "refreshing"
    /\ coordinator' = coordinator + 1
    /\ forwarded' = FALSE
    /\ stored' = stored
    /\ update_interval' = UpdateIntervalMinutes
    /\ configured' = options.policy
    /\ pc' = "fetching"
    /\ query' = CoordinatorQuery(EntryName(data, options), EntryAddress(data, options))
    /\ attempt' = 1
    /\ delay' = InitialDelayMs
    /\ last_exc' = NoExc
    /\ result' = EmptyResult
    /\ now' = NoClock
    /\ calls' = <<>>
    /\ sleeps' = <<>>
    /\ outcome' = NoReturn
    /\ cancelled' = FALSE
    /\ UNCHANGED <<entryVars, flowVars, sensorVars, domainVars, yamlVars, registryVars>>

\* The first refresh has ended.  When it failed the setup ends there; else
\* the title is synced, the coordinator stored and the forward of the
\* sensor platform awaited.
FirstRefreshEnds ==
    /\ setupPc = "refreshing"
    /\ pc = "done"
    /\ IF FirstRefreshOk(outcome)
       THEN /\ setupPc' = "forwarding"
            /\ stored' = StoredAfterSetup(coordinator, stored)
            /\ forwarded' = TRUE
            /\ IF TitleOutOfSync(entries["A"])
               THEN /\ skip_next_reload' = TRUE
                    /\ skipSetter' = "A"
                    /\ entries' = [entries EXCEPT !["A"].title = entries["A"].conf.name]
               ELSE UNCHANGED domainVars
       ELSE /\ setupPc' = "failed"
            /\ UNCHANGED <<stored, forwarded, domainVars>>
    /\ coordinator' = coordinator
    /\ UNCHANGED <<entryVars, flowVars, coordinatorVars, cycleVars, sensorVars, yamlVars,
                   registryVars>>

\* The forward of the sensor platform has ended: the entity exists and the
\* update listener is registered, or the forward raised and the setup
\* failed with the coordinator already stored.
ForwardEnds(ok) ==
    /\ setupPc = "forwarding"
    /\ IF ok
       THEN /\ setupPc' = "loaded"
            /\ entries' = [entries EXCEPT !["A"].loaded = TRUE,
                                          !["A"].entity = entries["A"].conf]
       ELSE /\ setupPc' = "failed"
            /\ entries' = entries
    /\ UNCHANGED <<coordinator, stored, forwarded, skip_next_reload, skipSetter>>
    /\ UNCHANGED <<entryVars, flowVars, coordinatorVars, cycleVars, sensorVars, yamlVars,
                   registryVars>>

\* async_unload_entry: when the platforms unloaded, what is stored for the
\* entry is popped (and the host drops the listener); else nothing changes.
Unloads(ok) ==
    /\ setupPc = "loaded"
    /\ IF ok
       THEN /\ setupPc' = "unloaded"
            /\ stored' = 0
            /\ entries' = [entries EXCEPT !["A"].loaded = FALSE]
       ELSE /\ setupPc' = "unload_failed"
            /\ UNCHANGED <<stored, entries>>
    /\ UNCHANGED <<coordinator, forwarded, skip_next_reload, skipSetter>>
    /\ UNCHANGED <<entryVars, flowVars, coordinatorVars, cycleVars, sensorVars, yamlVars,
                   registryVars>>

SetupNext ==
    \/ SetupBegins
    \/ IntegrationFetched
    \/ SleepEnds
    \/ FirstRefreshEnds
    \/ \E ok \in BOOLEAN : ForwardEnds(ok)
    \/ \E ok \in BOOLEAN : Unloads(ok)

SetupSpec == Init /\ [][SetupNext]_vars

(***************************************************************************)
(* The user flow, the YAML platform setups and their import flows.  A      *)
(* platform setup is suspended in `await ...flow.async_init(...)` while    *)
(* its import flow runs; the setups of several YAML lines run side by      *)
(* side.  A restart of the process empties hass.data and runs the YAML     *)
(* platform setups again; the config entries stay.                         *)
(***************************************************************************)
\* addresses a user types into the user flow
UserAddresses == { <<"b">>, <<"A">>, <<"a", " ">> }

\* self._abort_if_unique_id_configured()
UniqueIdConfigured(uid) == \E entry \in config_entries : entry.unique_id = uid

\* ConfigFlow.async_step_user with user input: aborted when the unique id
\* of the address is configured, else the entry is created as typed.
StepUser(name, address) ==
    /\ ~UniqueIdConfigured(AddrUniqueId(address))
    /\ config_entries' = config_entries
          \cup {ConfigEntry(name, name, address, AddrUniqueId(address), "user")}
    /\ UNCHANGED <<yaml, yaml_migration_notified, notifications>>
    /\ UNCHANGED <<entryVars, flowVars, coordinatorVars, cycleVars, sensorVars, domainVars,
                   setupVars, registryVars>>

\* the loop of async_setup_platform: an entry whose trimmed, lower-cased
\* data address is the YAML line's
AlreadyConfigured(address) ==
    \E entry \in config_entries : NormAddr(entry.address) = NormAddr(address)

\* async_setup_platform of line y up to its first await: it returns when
\* the address is configured, else it starts the import flow.
YamlSetupStarts(y) ==
    /\ yaml[y].pc = "idle"
    /\ LET owned == \E entry \in config_entries : entry.line = y
       IN yaml' = [yaml EXCEPT ![y] =
              IF AlreadyConfigured(YamlConfig(y).address)
              THEN [pc |-> "done", owned |-> owned, imported |-> FALSE, notified |-> FALSE]
              ELSE [pc |-> "importing", owned |-> owned, imported |-> TRUE,
                    notified |-> FALSE]]
    /\ UNCHANGED <<config_entries, yaml_migration_notified, notifications>>
    /\ UNCHANGED <<entryVars, flowVars, coordinatorVars, cycleVars, sensorVars, domainVars,
                   setupVars, registryVars>>

\* ConfigFlow.async_step_import for line y: the name and address are
\* cleaned up, and the entry is created unless the unique id of the cleaned
\* address is configured.
StepImport(y) ==
    /\ yaml[y].pc = "importing"
    /\ LET cleaned == ExtractNameAndCleanAddress(YamlConfig(y).name, YamlConfig(y).address)
           uid == AddrUniqueId(cleaned.address)
       IN config_entries' =
              IF UniqueIdConfigured(uid) THEN config_entries
              ELSE config_entries
                      \cup {ConfigEntry(cleaned.name, cleaned.name, cleaned.address, uid, y)}
    /\ yaml' = [yaml EXCEPT ![y].pc = "imported"]
    /\ UNCHANGED <<yaml_migration_notified, notifications>>
    /\ UNCHANGED <<entryVars, flowVars, coordinatorVars, cycleVars, sensorVars, domainVars,
                   setupVars, registryVars>>

\* a platform setup that never marks the notification as created
MarkNeverNotified(flag) == flag

\* domain_data["yaml_migration_notified"] = True
MarkNotified(flag) == TRUE

\* async_setup_platform of line y after the import flow: the notification
\* is created unless the flag says it was, and the flag is set first.
YamlSetupNotifies(y) ==
    /\ yaml[y].pc = "imported"
    /\ IF ~yaml_migration_notified
       THEN /\ yaml_migration_notified' = MarkNotified(yaml_migration_notified)
            /\ notifications' = notifications + 1
            /\ yaml' = [yaml EXCEPT ![y].pc = "done", ![y].notified = TRUE]
       ELSE /\ UNCHANGED <<yaml_migration_notified, notifications>>
            /\ yaml' = [yaml EXCEPT ![y].pc = "done"]
    /\ config_entries' = config_entries
    /\ UNCHANGED <<entryVars, flowVars, coordinatorVars, cycleVars, sensorVars, domainVars,
                   setupVars, registryVars>>

\* The process is restarted once every platform setup has ended.
Restart ==
    /\ \A y \in YamlIds : yaml[y].pc = "done"
    /\ yaml' = [y \in YamlIds |-> YamlIdle]
    /\ yaml_migration_notified' = FALSE
    /\ notifications' = 0
    /\ config_entries' = config_entries
    /\ UNCHANGED <<entryVars, flowVars, coordinatorVars, cycleVars, sensorVars, domainVars,
                   setupVars, registryVars>>

YamlNext ==
    \/ \E address \in UserAddresses : StepUser(<<"a">>, address)
    \/ \E y \in YamlIds : YamlSetupStarts(y)
    \/ \E y \in YamlIds : StepImport(y)
    \/ \E y \in YamlIds : YamlSetupNotifies(y)
    \/ Restart

YamlSpec == Init /\ [][YamlNext]_vars

(***************************************************************************)
(* The sensor platform's setup for a config entry (sensor.async_setup_entry) *)
(* and the entity registry.  The registry the setup finds is an input: it  *)
(* holds entities an earlier version registered under the digest of their  *)
(* entry's address.                                                        *)
(* The setup has no await, so its lookups, its rename and its removals are *)
(* one step; async_add_entities registers the entity in a later step.      *)
(***************************************************************************)
RegistryAddresses == { <<"a">>, <<"b">>, <<"c">> }

\* entry.data[CONF_ADDRESS] of the two entries: the config flow gives no
\* two entries the same address
DataAddress(e) == IF e = "A" THEN <<"a">> ELSE <<"b">>

\* the entities an earlier version may have left: for each entry none, or
\* one under the digest of the entry's address
LegacyRegistries ==
    { {RegistryEntry(EntityNumber(e), LegacyUniqueId(DataAddress(e)), e) : e \in with} :
          with \in SUBSET EntryIds }

RegistryInit ==
    /\ InitBase(DefaultData)
    /\ registry \in LegacyRegistries
    /\ addresses = [e \in EntryIds |-> [data |-> DataAddress(e), options |-> <<>>]]
    /\ platformPc = [e \in EntryIds |-> "idle"]

\* the options flow stores another address in the entry's options
EditAddress(e, address) ==
    /\ addresses' = [addresses EXCEPT ![e].options = address]
    /\ UNCHANGED <<registry, platformPc>>
    /\ UNCHANGED <<entryVars, flowVars, coordinatorVars, cycleVars, sensorVars, domainVars,
                   setupVars, yamlVars>>

\* legacy_uids: the digests of the data address and of the options address
LegacyUids(e) ==
    (IF addresses[e].data # <<>> THEN <<LegacyUniqueId(addresses[e].data)>> ELSE <<>>)
    \o (IF addresses[e].options # <<>> THEN <<LegacyUniqueId(addresses[e].options)>>
        ELSE <<>>)

\* registry.async_get_entity_id(domain, platform, unique_id)
HasUniqueId(reg, unique_id) == \E ent \in reg : ent.unique_id = unique_id

\* lines 106-113: without an entity under the stable id, the first legacy
\* unique id the registry knows is renamed to the stable id
Migrated(reg, e) ==
    LET uids == LegacyUids(e)
        found == { i \in 1..Len(uids) : HasUniqueId(reg, uids[i]) }
    IN IF HasUniqueId(reg, StableUniqueId(e)) \/ found = {}
       THEN reg
       ELSE LET uid == uids[CHOOSE i \in found : \A j \in found : i <= j]
            IN { IF ent.unique_id = uid
                 THEN [ent EXCEPT !.unique_id = StableUniqueId(e)] ELSE ent : ent \in reg }

\* lines 116-118: the entry's entities under any other unique id are removed
WithoutDuplicates(reg, e) ==
    { ent \in reg : ~(ent.config_entry_id = e /\ ent.unique_id # StableUniqueId(e)) }

\* sensor.async_setup_entry for entry e, first or repeated
PlatformSetup(e) ==
    /\ platformPc[e] \in {"idle", "added"}
    /\ registry' = WithoutDuplicates(Migrated(registry, e), e)
    /\ platformPc' = [platformPc EXCEPT ![e] = "adding"]
    /\ addresses' = addresses
    /\ UNCHANGED <<entryVars, flowVars, coordinatorVars, cycleVars, sensorVars, domainVars,
                   setupVars, yamlVars>>

\* entity_id of the registry entry created for entry e: none of the
\* entities the registry started with
FreshEntityId(e) == Cardinality(EntryIds) + EntityNumber(e)

\* async_add_entities registers the entity of entry e: the registry entry
\* under its unique id is taken over by the entry, or a new one is created.
EntityAdded(e) ==
    /\ platformPc[e] = "adding"
    /\ registry' =
          IF HasUniqueId(registry, StableUniqueId(e))
          THEN { IF ent.unique_id = StableUniqueId(e)
                 THEN [ent EXCEPT !.config_entry_id = e] ELSE ent : ent \in registry }
          ELSE registry
               \cup {RegistryEntry(FreshEntityId(e), StableUniqueId(e), e)}
    /\ platformPc' = [platformPc EXCEPT ![e] = "added"]
    /\ addresses' = addresses
    /\ UNCHANGED <<entryVars, flowVars, coordinatorVars, cycleVars, sensorVars, domainVars,
                   setupVars, yamlVars>>

RegistryNext ==
    \/ \E e \in EntryIds, address \in RegistryAddresses : EditAddress(e, address)
    \/ \E e \in EntryIds : PlatformSetup(e)
    \/ \E e \in EntryIds : EntityAdded(e)

RegistrySpec == RegistryInit /\ [][RegistryNext]_vars

(***************************************************************************)
(* Properties of the retry loop.                                           *)
(***************************************************************************)
\* a fetch that failed with a timeout, a connection error or HTTP 429/5xx
TransientCall(c) ==
    \/ c.handler = "network"
    \/ c.handler = "http" /\ c.exc.hasStatus /\ (c.exc.code = 429 \/ c.exc.code >= 500)

\* a fetch that failed with another HTTP error or an unexpected exception
PermanentCall(c) ==
    \/ c.handler = "unexpected"
    \/ c.handler = "http" /\ ~(c.exc.hasStatus /\ (c.exc.code = 429 \/ c.exc.code >= 500))

AllTransient == \A i \in 1..Len(calls) : TransientCall(calls[i])

\* the give-up raise at the end of the loop body, with its cause
Exhausted == outcome.kind = "UpdateFailed" /\ outcome.msg = "Network error"

\* C1: a call in which every fetch fails with a transient error makes exactly
\* 4 fetches and 3 sleeps, the k-th sleep with base min(initial * 2^(k-1),
\* max_delay) and a total between base and 1.4 * base, and then raises the
\* give-up UpdateFailed whose cause is the last fetch's exception.
C1_AllTransientExhausts ==
    (pc = "done" /\ AllTransient) =>
        /\ Len(calls) = 4
        /\ Len(sleeps) = 3
        /\ \A k \in 1..3 :
              /\ sleeps[k].base = Min(1000 * 2 ^ (k - 1), 8000)
              /\ sleeps[k].base <= sleeps[k].total
              /\ 10 * sleeps[k].total <= 14 * sleeps[k].base
        /\ Exhausted
        /\ outcome.cause = calls[4].exc

C1_Witness ==
    /\ pc = "done"
    /\ AllTransient
    /\ Len(calls) = 4
    /\ Exhausted
    /\ calls[4].exc.k = "HTTPError"
    /\ sleeps[3].total > sleeps[3].base

\* C2: a fetch that fails with a permanent error is the last fetch of its
\* call: the call has ended with UpdateFailed, and the only sleeps are the
\* ones between the earlier fetches (none when it was the first fetch).
C2_PermanentFailsAtOnce ==
    \A i \in 1..Len(calls) :
        PermanentCall(calls[i]) =>
            /\ i = Len(calls)
            /\ pc = "done"
            /\ outcome.kind = "UpdateFailed"
            /\ outcome.msg \in {"HTTP error", "Unexpected error"}
            /\ outcome.cause = calls[i].exc
            /\ Len(sleeps) = i - 1

C2_Witness ==
    /\ pc = "done"
    /\ Len(calls) = 1
    /\ calls[1].handler = "http"
    /\ calls[1].exc.code = 404
    /\ sleeps = <<>>

\* the steps a call that has not ended can still take are bounded by this
C3_StepsLeft == 2 * (4 - attempt) + (IF pc = "fetching" THEN 1 ELSE 0)

C3_Bounded ==
    /\ outcome.kind \in {"none", "success", "UpdateFailed", "raw"}
    /\ (pc = "done") <=> (outcome.kind # "none")
    /\ Len(calls) <= 4
    /\ Len(sleeps) <= 3
    /\ pc = "done" => Len(calls) >= 1 /\ Len(sleeps) = Len(calls) - 1
    /\ pc = "sleeping" => Len(sleeps) = Len(calls) /\ ENABLED SleepEnds
    /\ pc = "fetching" => Len(sleeps) = Len(calls) /\ C3_StepsLeft >= 1 /\ ENABLED Fetched

C3_Step ==
    /\ pc = "sleeping" => pc' = "fetching" /\ calls' = calls /\ sleeps' = sleeps
    /\ pc = "fetching" => pc' \in {"sleeping", "done"} /\ Len(calls') = Len(calls) + 1
    /\ pc \in {"sleeping", "fetching"} /\ pc' # "done" => C3_StepsLeft' < C3_StepsLeft
    /\ pc = "done" => pc' = "fetching" /\ calls' = <<>> /\ sleeps' = <<>> /\ outcome'.kind = "none"

\* C3: every call of the update method ends with exactly one outcome (a
\* returned reading or one raised error) after at most 4 fetches and 3
\* sleeps: a call that has not ended can always take its next step, every
\* step brings it closer to its end, a sleep is followed by the next fetch,
\* and after the outcome nothing happens but the start of the next call.
C3_OneTerminalOutcome == []C3_Bounded /\ [][C3_Step]_vars

C3_Witness ==
    /\ pc = "done"
    /\ Len(calls) = 4
    /\ Len(sleeps) = 3
    /\ outcome.kind = "success"

(***************************************************************************)
(* Properties of the normalisation.                                        *)
(***************************************************************************)
\* the last fetch returned a mapping, which the call went on to normalise
GotMapping ==
    /\ calls # <<>>
    /\ calls[Len(calls)].handler = "break"
    /\ result.shape = "dict"

\* the grid of the fetched mapping holds a value for the weekday and hour read
GridHasSlot ==
    /\ now.read
    /\ result.pt.kind = "list"
    /\ Len(result.pt.days) >= now.weekday + 1
    /\ result.pt.days[now.weekday + 1].ok
    /\ Len(result.pt.days[now.weekday + 1].data) >= now.hour + 1

GridSlot == result.pt.days[now.weekday + 1].data[now.hour + 1]

\* the popularity the normalisation starts from: live, else historical
RawPopularity == IF result.cp # NoneV THEN result.cp ELSE GridSlot

\* v cut to an integer toward zero and limited to 0..100
Truncated(v) ==
    IF v.t = "int" THEN v.x
    ELSE IF v.x >= 0 THEN v.x \div 10 ELSE -((-v.x) \div 10)
Limited(n) == IF n < 0 THEN 0 ELSE IF n > 100 THEN 100 ELSE n

\* C5: a mapping without current_popularity whose grid has no value for
\* the current weekday and hour ends the call at that fetch with the
\* UpdateFailed of the fallback: no sleep and no fetch follow it, and no
\* reading is returned.
C5_NoFallbackIsPermanent ==
    (GotMapping /\ result.cp = NoneV /\ ~GridHasSlot) =>
        /\ pc = "done"
        /\ outcome.kind = "UpdateFailed"
        /\ outcome.msg = "Historical popularity not available for fallback"
        /\ Len(sleeps) = Len(calls) - 1

C5_Witness ==
    /\ GotMapping
    /\ result.cp = NoneV
    /\ result.pt.kind = "list"
    /\ Len(result.pt.days) = 3
    /\ now.weekday = 3
    /\ Len(calls) = 2
    /\ outcome.kind = "UpdateFailed"

\* C6 as stated: the fallback value equals the grid entry itself.
C6_FallbackValueIsGridEntry ==
    (pc = "done" /\ GotMapping /\ outcome.kind = "success" /\ result.cp = NoneV) =>
        /\ outcome.attributes.popularity_is_live = "False"
        /\ outcome.state.t = GridSlot.t
        /\ Tenths(outcome.state) = Tenths(GridSlot)

\* C6, amended: a returned reading has popularity_is_live True exactly when
\* the mapping had a current_popularity (0 included); a mapping without
\* one whose grid has the slot gives a reading with popularity_is_live
\* False whose value is the grid entry of the current weekday (Monday = 0)
\* and hour, cut to an integer and limited to 0..100.
C6_LiveFlagAndFallback ==
    /\ (pc = "done" /\ GotMapping /\ outcome.kind = "success") =>
          /\ outcome.attributes.popularity_is_live \in {"True", "False"}
          /\ (outcome.attributes.popularity_is_live = "True") <=> (result.cp # NoneV)
    /\ (pc = "done" /\ GotMapping /\ result.cp = IntV(0)) =>
          outcome.kind = "success" /\ outcome.attributes.popularity_is_live = "True"
    /\ (pc = "done" /\ GotMapping /\ result.cp = NoneV /\ GridHasSlot) =>
          /\ outcome.kind = "success"
          /\ outcome.attributes.popularity_is_live = "False"
          /\ outcome.state = IntV(Limited(Truncated(GridSlot)))

C6_Witness ==
    /\ pc = "done"
    /\ GotMapping
    /\ result.cp = NoneV
    /\ now = Clock(3, 0)
    /\ GridHasSlot
    /\ GridSlot = IntV(21)
    /\ outcome.state = IntV(21)
    /\ outcome.attributes.popularity_is_live = "False"

\* C7 as stated: a numeric popularity v is normalised to
\* max(0, min(100, round(v))), a non-numeric one is passed through.
C7_RoundedAndClamped ==
    (pc = "done" /\ GotMapping /\ (result.cp # NoneV \/ GridHasSlot)) =>
        IF RawPopularity.t \in {"int", "float", "nan"}
        THEN /\ outcome.kind = "success"
             /\ outcome.state = IntV(Max(0, Min(100, PyRound(RawPopularity))))
        ELSE outcome.kind = "success" /\ outcome.state = RawPopularity

\* C7, amended: a numeric popularity v that int() can convert is normalised
\* to max(0, min(100, int(v))), int() cutting toward zero, so the value
\* lies in 0..100 (150 gives 100, -5 gives 0, 99.6 gives 99); a
\* non-numeric one is passed through unchanged.
C7_TruncatedAndClamped ==
    (pc = "done" /\ GotMapping /\ (result.cp # NoneV \/ GridHasSlot)) =>
        CASE RawPopularity.t \in {"int", "float"} ->
                 /\ outcome.kind = "success"
                 /\ outcome.state = IntV(Limited(Truncated(RawPopularity)))
                 /\ outcome.state.x \in 0..100
          [] RawPopularity.t = "str" ->
                 outcome.kind = "success" /\ outcome.state = RawPopularity
          [] OTHER -> TRUE

C7_Witness ==
    /\ pc = "done"
    /\ GotMapping
    /\ result.cp = FloatV(996)
    /\ outcome.state = IntV(99)

\* C9 as stated: a call ends with a returned reading or with UpdateFailed,
\* never with another exception.
C9_OnlyStructuredErrors ==
    pc = "done" => outcome.kind \in {"success", "UpdateFailed"}

(***************************************************************************)
(* Properties of what the entity exposes.                                  *)
(***************************************************************************)
\* C4 as stated: an update that fails after one that succeeded leaves the
\* exposed reading (state and every attribute) as it was.
C4_FailedUpdateKeepsReading ==
    [][(sensorPc = "fetching" /\ sensorLast = "ok" /\ sensorLast' = "failed") =>
           (_state' = _state /\ _attributes' = _attributes)]_vars

(***************************************************************************)
(* Properties of the query derivation.                                     *)
(***************************************************************************)
\* the trimmed address starts with the trimmed, non-empty name, case ignored
NameLeadsAddress ==
    /\ Strip(data.name) # <<>>
    /\ StartsWith(Lower(Strip(data.address)), Lower(Strip(data.name)))

\* the query the derivation rule gives for the entry's name and address
RuleQuery ==
    LET n == Strip(data.name)
        a == Strip(data.address)
    IN IF NameLeadsAddress THEN a
       ELSE IF n # <<>> /\ a # <<>> THEN n \o <<",", " ">> \o a
       ELSE IF n # <<>> THEN n
       ELSE a

\* C8: when the trimmed address starts with the trimmed, non-empty name
\* (case ignored) the query is the address alone, never the name put in
\* front of it again; otherwise it is "name, address" or the non-empty one
\* of the two; and the coordinator and the sensor build the same query.
C8_QueryDerivation ==
    /\ pc = "fetching" =>
          /\ query = RuleQuery
          /\ NameLeadsAddress =>
                query # Strip(data.name) \o <<",", " ">> \o Strip(data.address)
    /\ sensorPc = "fetching" => sensorQuery = RuleQuery
    /\ (pc = "fetching" /\ sensorPc = "fetching") => query = sensorQuery

C8_Witness ==
    /\ pc = "fetching"
    /\ sensorPc = "fetching"
    /\ data.name = <<" ", "A">>
    /\ data.address = <<"a", ",", "b">>
    /\ query = <<"a", ",", "b">>

(***************************************************************************)
(* Properties of the policy.                                               *)
(***************************************************************************)
\* C10 as stated: the update method makes no more fetches than the
\* configured max_attempts, its sleeps follow the configured initial and
\* maximum delay, and the coordinator polls at the configured interval.
C10_ConfiguredPolicyInForce ==
    /\ Len(calls) <= configured.max_attempts
    /\ \A k \in 1..Len(sleeps) :
          sleeps[k].base =
              Min(configured.backoff_initial_ms * 2 ^ (k - 1), configured.backoff_max_ms)
    /\ update_interval = configured.update_interval_minutes

\* C11: after any sequence of options-flow submissions that starts from an
\* entry without stored options, the stored policy has its interval in
\* 1..120 minutes, its attempts in 1..8, its initial delay in 0.1..30 s and
\* its maximum delay between the initial delay and 120 s.
C11_StoredPolicyInRange ==
    options.stored =>
        /\ options.policy.update_interval_minutes \in 1..120
        /\ options.policy.max_attempts \in 1..8
        /\ options.policy.backoff_initial_ms \in 100..30000
        /\ options.policy.backoff_initial_ms <= options.policy.backoff_max_ms
        /\ options.policy.backoff_max_ms <= 120000

\* an advanced submission under name "a" whose maximum was lifted to the
\* initial delay, kept by a later basic-only submission under name "b"
C11_Witness ==
    /\ options.stored
    /\ flowStep = "closed"
    /\ _basic.name = <<"a">>
    /\ options.name = <<"b">>
    /\ options.policy = Policy(120, 1, 30000, 30000)

\* C12 as stated: the entity exposes the reading of the update method's
\* last successful call (its value and attributes), and makes no fetch of
\* its own.
C12_EntityExposesCycleResult ==
    /\ sensorPc = "idle"
    /\ (pc = "done" /\ outcome.kind = "success") =>
          (_state = outcome.state /\ _attributes = outcome.attributes)

\* the curve a reading holds for day d (1 = Monday) of snapshot r: the
\* day's data where the snapshot has it, none otherwise
SnapshotCurve(r, d) ==
    IF r.pt.kind = "list" /\ d <= Len(r.pt.days) /\ r.pt.days[d].ok
    THEN Curve(r.pt.days[d].data)
    ELSE NoCurve

\* value v is what snapshot r gives: its live value, else one of its grid
\* entries, cut to an integer and limited to 0..100 when it is a number
ValueFrom(r, v) ==
    LET normal(x) == IF x.t \in {"int", "float"} THEN IntV(Limited(Truncated(x))) ELSE x
    IN IF r.cp # NoneV
       THEN r.cp.t # "nan" /\ v = normal(r.cp)
       ELSE /\ r.pt.kind = "list"
            /\ \E d \in 1..Len(r.pt.days) :
                  /\ r.pt.days[d].ok
                  /\ \E h \in 1..Len(r.pt.days[d].data) : v = normal(r.pt.days[d].data[h])

\* every field of the reading (state, attributes) comes from snapshot r
FromSnapshot(r, state, attributes) ==
    /\ attributes.maps_name = r.name
    /\ attributes.address = r.address
    /\ attributes.popularity_is_live = (IF r.cp # NoneV THEN "True" ELSE "False")
    /\ \A d \in 1..7 : attributes.days[d] = SnapshotCurve(r, d)
    /\ ValueFrom(r, state)

\* C13 as stated: whenever the entity can be observed (no update running),
\* it exposes either nothing yet or a reading whose value, live flag, name,
\* address and seven curves all come from one snapshot.
C13_ReadingFromOneSnapshot ==
    sensorPc = "idle" =>
        \/ _state = NoneV /\ _attributes = InitialAttributes
        \/ \E r \in DictSnapshots : FromSnapshot(r, _state, _attributes)

\* the value and live flag of venue A's snapshot under the name, address
\* and curves of venue B's
C13_Torn ==
    /\ sensorPc = "idle"
    /\ _state = IntV(100)
    /\ _attributes.popularity_is_live = "True"
    /\ _attributes.maps_name = "B"
    /\ _attributes.days[1] = NoCurve

\* C14 as stated: in a returned reading the curve of each weekday is the
\* data the snapshot has for that day, and none when the snapshot has no
\* (well-formed) entry for the day, whatever the other days look like.
C14_CurvesDayByDay ==
    (pc = "done" /\ GotMapping /\ outcome.kind = "success") =>
        \A d \in 1..7 : outcome.attributes.days[d] = SnapshotCurve(result, d)

\* a reading from a snapshot whose Thursday is malformed: Friday's data is
\* in the snapshot and not in the reading
C14_LostDay ==
    /\ pc = "done"
    /\ GotMapping
    /\ outcome.kind = "success"
    /\ result.pt = GridBadDay
    /\ ~result.pt.days[4].ok
    /\ result.pt.days[5].ok
    /\ outcome.attributes.days[3] = Curve(result.pt.days[3].data)
    /\ outcome.attributes.days[5] = NoCurve

(***************************************************************************)
(* Properties of the classification of fetch failures.                     *)
(***************************************************************************)
\* the i-th fetch of the call was followed by a sleep (and so by a retry)
Retried(i) == Len(sleeps) >= i

\* C17: a fetch that fails with an HTTP error is followed by a sleep and a
\* retry exactly when its status is 429 or at least 500 and attempts
\* remain; with any other status, or with no response, it ends the call at
\* that attempt with the HTTP UpdateFailed; a timeout or connection error is
\* retried whenever attempts remain; a transient failure of the last
\* attempt ends the call with the give-up UpdateFailed.
C17_TransientClassification ==
    \A i \in 1..Len(calls) :
        LET c == calls[i]
            transient ==
                \/ c.handler = "network"
                \/ c.handler = "http" /\ c.exc.hasStatus /\ (c.exc.code = 429 \/ c.exc.code >= 500)
        IN c.handler \in {"network", "http"} =>
              /\ Retried(i) <=> (transient /\ i < 4)
              /\ ~Retried(i) => i = Len(calls) /\ pc = "done"
              /\ ~transient => outcome.kind = "UpdateFailed" /\ outcome.msg = "HTTP error"
              /\ (transient /\ i = 4) => Exhausted

\* HTTP 500, a timeout and HTTP 429 were retried, an HTTP error without a
\* response ended the call
C17_Witness ==
    /\ pc = "done"
    /\ Len(calls) = 4
    /\ calls[1].exc.code = 500
    /\ calls[2].exc.k = "Timeout"
    /\ calls[3].exc.code = 429
    /\ calls[4].exc.k = "HTTPError" /\ ~calls[4].exc.hasStatus
    /\ outcome.msg = "HTTP error"

C15_Ended ==
    \/ ~cancelled /\ cancelled'
    \/ sensorPc = "fetching" /\ sensorPc' = "idle" /\ sensorLast' = "cancelled"

\* what a call leaves behind itself: the entity's reading, the entry and
\* the coordinator's settings
C15_Cached == <<_state, _attributes, entryVars, coordinatorVars>>

C16_SkipIsPerEntry ==
    \A e \in EntryIds :
        entries[e].lastRun.did = "skipped" => entries[e].lastRun.by = e

\* entry A's title sync has made the listener skip the reload for a user
\* edit of entry B, whose entity still holds the previous address
C16_Interference ==
    /\ entries["B"].lastRun = Ran("user", "skipped", "A")
    /\ entries["B"].pending = <<>>
    /\ entries["B"].entity # entries["B"].conf

\* C19 as stated: the only listener invocation a title sync suppresses is
\* the one its own title update caused, so no invocation caused by a user
\* edit is skipped, and the flag is set only while such a self-caused
\* invocation is still to run.
C19_SkipsOnlyOwnTitleUpdate ==
    /\ \A e \in EntryIds :
          entries[e].lastRun.did = "skipped" => entries[e].lastRun.cause = "title"
    /\ skip_next_reload =>
          \E e \in EntryIds, i \in 1..MaxPending :
              i <= Len(entries[e].pending) /\ entries[e].pending[i] = "title"

\* the title sync of a setup has left the flag set with no invocation to
\* take it
C19_StaleFlag ==
    /\ skip_next_reload
    /\ \A e \in EntryIds : entries[e].loaded /\ entries[e].pending = <<>>

\* C20 as stated, for an entry at rest (set up, no listener invocation
\* scheduled): the name and address its sensor entity builds its query
\* from are the configured ones.
C20_EntityFollowsOptions ==
    \A e \in EntryIds :
        (entries[e].loaded /\ entries[e].pending = <<>>) =>
            entries[e].entity = entries[e].conf

\* a changed name whose two listener invocations (title sync, then the
\* skipped one) are over, with the entity left on the old name
C20_StaleEntity ==
    /\ entries["A"].loaded
    /\ entries["A"].pending = <<>>
    /\ entries["A"].lastRun = Ran("title", "skipped", "A")
    /\ entries["A"].conf.name = <<"b">>
    /\ entries["A"].title = <<"b">>
    /\ entries["A"].entity.name = <<"a">>

(***************************************************************************)
(* Properties of setup and unload.                                         *)
(***************************************************************************)
\* the first refresh of the running setup call has returned a reading
FirstRefreshDone == pc = "done" /\ outcome.kind = "success"

\* the running setup call failed in its first refresh
FirstRefreshFailed == setupPc = "failed" /\ pc = "done" /\ outcome.kind # "success"

\* C21 as stated: while the first refresh runs nothing is stored for the
\* entry, no platform is forwarded and no listener registered; the forward
\* happens after a first refresh that returned a reading; and after a
\* failed first refresh nothing is stored for the entry, no platform is
\* forwarded and no listener is registered.
C21_NothingStoredUnlessRefreshed ==
    /\ setupPc = "refreshing" => stored = 0 /\ ~forwarded /\ ~entries["A"].loaded
    /\ setupPc = "forwarding" => FirstRefreshDone /\ stored # 0
    /\ FirstRefreshFailed => stored = 0 /\ ~forwarded /\ ~entries["A"].loaded

\* C21, amended: a setup call stores its coordinator and forwards the
\* platform only in the step that follows its first refresh having
\* returned a reading, and registers the listener only after that forward;
\* while its first refresh runs, and after its first refresh failed, the
\* call has stored no coordinator of its own, forwarded no platform and
\* registered no listener (what an earlier setup call left stored for the
\* entry is still there).
C21_SetupOrdered ==
    /\ [](setupPc = "refreshing" =>
             stored # coordinator /\ ~forwarded /\ ~entries["A"].loaded)
    /\ [](setupPc = "forwarding" => FirstRefreshDone /\ stored # 0 /\ forwarded)
    /\ [](FirstRefreshFailed =>
             stored # coordinator /\ ~forwarded /\ ~entries["A"].loaded)
    /\ [][(stored' # stored /\ stored' # 0) \/ (forwarded' /\ ~forwarded) =>
             setupPc = "refreshing" /\ FirstRefreshDone /\ setupPc' = "forwarding"]_vars
    /\ [][(entries'["A"].loaded /\ ~entries["A"].loaded) =>
             setupPc = "forwarding" /\ forwarded /\ FirstRefreshDone]_vars
    /\ [][(setupPc = "refreshing" /\ pc = "done" /\ ~FirstRefreshDone) =>
             setupPc' = "failed" /\ stored' = stored /\ ~forwarded'
             /\ ~entries'["A"].loaded]_vars

\* a second setup whose first refresh failed after a sleep, with nothing
\* stored, forwarded or registered
C21_Witness ==
    /\ FirstRefreshFailed
    /\ coordinator = 2
    /\ Len(calls) = 4
    /\ stored = 0
    /\ ~forwarded
    /\ ~entries["A"].loaded

\* C22 as stated: once a setup has completed, the coordinator stored for
\* the entry is the one that setup call created; after a successful unload
\* nothing is stored for the entry; a failed unload leaves what is stored
\* as it was.
C22_StoredIsLatest ==
    /\ setupPc = "loaded" => stored = coordinator
    /\ setupPc = "unloaded" => stored = 0
    /\ setupPc = "unload_failed" => stored # 0

\* a completed setup with the coordinator of an earlier, failed setup call
\* still stored
C22_LeftOver ==
    /\ setupPc = "loaded"
    /\ coordinator = 3
    /\ stored = 2

(***************************************************************************)
(* Config entries and YAML platform setups.                                *)
(***************************************************************************)
\* C23 as stated: no two config entries have stored addresses that are
\* equal after trimming and lower-casing, and a YAML platform setup that
\* starts while an entry created from its own line exists starts no import
\* flow and creates no notification.  (A setup whose YAML address equals a
\* stored one after trimming and lower-casing returns at once; the entry a
\* line created earlier is the case that is left.)
C23_OneEntryPerAddress ==
    /\ \A e1, e2 \in config_entries :
           NormAddr(e1.address) = NormAddr(e2.address) => e1 = e2
    /\ \A y \in YamlIds :
           yaml[y].owned => ~yaml[y].imported /\ ~yaml[y].notified

\* the platform setup of the line "(A), a" starts an import flow and creates
\* the notification although the entry with address "a" that this line
\* created in an earlier run exists
C23_ImportedAgain ==
    /\ \E entry \in config_entries : entry.line = "y1" /\ entry.address = <<"a">>
    /\ yaml["y1"].owned
    /\ yaml["y1"].imported
    /\ yaml["y1"].notified

\* C24: in one run of the process the "YAML migrated" notification is
\* created at most once, however many platform setups run side by side and
\* however their import flows interleave.
C24_NotifiedAtMostOnce == notifications <= 1

\* two platform setups of one run have both been through their import flow
\* and one notification exists
C24_Witness ==
    /\ \E y1, y2 \in YamlIds :
           /\ y1 # y2
           /\ yaml[y1].pc = "done" /\ yaml[y1].imported /\ yaml[y1].notified
           /\ yaml[y2].pc = "done" /\ yaml[y2].imported /\ ~yaml[y2].notified
    /\ notifications = 1

(***************************************************************************)
(* The entity registry.                                                    *)
(***************************************************************************)
\* once the platform's setup for an entry has run, every entity of the
\* entry is registered under the entry's stable unique id
C25_OwnAreStable ==
    \A e \in EntryIds :
        platformPc[e] # "idle" =>
            \A ent \in registry :
                ent.config_entry_id = e => ent.unique_id = StableUniqueId(e)

\* a setup that finds no entity under the stable id and a legacy entity of
\* the entry leaves one of the entry's legacy entities under the stable id
C25_LegacyRenamed ==
    \A e \in EntryIds :
        (/\ PlatformSetup(e)
         /\ ~HasUniqueId(registry, StableUniqueId(e))
         /\ \E ent \in registry : ent.config_entry_id = e)
        => \E ent \in registry :
               /\ ent.config_entry_id = e
               /\ [ent EXCEPT !.unique_id = StableUniqueId(e)] \in registry'

\* a setup that runs again changes nothing in the registry
C25_RepeatedSetupChangesNothing ==
    \A e \in EntryIds :
        PlatformSetup(e) /\ platformPc[e] = "added" => registry' = registry

\* a setup leaves the entities of the other entries as they are
C25_OthersUntouched ==
    \A e \in EntryIds :
        PlatformSetup(e) =>
            \A ent \in registry : ent.config_entry_id # e => ent \in registry'

\* C25 as stated: after the sensor platform's setup for an entry has run,
\* every registry entity of the entry has the stable unique id; a legacy
\* entity of the entry is renamed to it rather than replaced; a repeated
\* setup changes nothing in the registry; no entity of a different entry is
\* renamed or removed.
C25_RegistryMigration ==
    /\ []C25_OwnAreStable
    /\ [][/\ C25_LegacyRenamed
          /\ C25_RepeatedSetupChangesNothing
          /\ C25_OthersUntouched]_vars

\* the setup of entry A, whose options address is "b" and which has no
\* entity of its own, has renamed the entity registered for entry B under
\* the digest of "b"
C25_TakenFromOther ==
    /\ addresses["A"].options = <<"b">>
    /\ platformPc["A"] = "adding"
    /\ platformPc["B"] = "idle"
    /\ RegistryEntry(2, StableUniqueId("A"), "B") \in registry

(***************************************************************************)
(* The live flag of the sensor entity.                                     *)
(***************************************************************************)
\* C26 as stated: after any sequence of sensor updates popularity_is_live is
\* true exactly when the current state was taken from a live value, false
\* exactly when it was taken from the historical grid, and None only while
\* the state has never been set.
C26_FlagBelongsToState ==
    /\ _attributes.popularity_is_live = "True" <=> stateSource = "live"
    /\ _attributes.popularity_is_live = "False" <=> stateSource = "grid"
    /\ _attributes.popularity_is_live = "None" => stateSource = "never"

\* the state was taken from the historical grid, and an update that failed
\* in the conversion of its live value has left the flag at true
C26_LiveFlagOnHistoricalState ==
    /\ sensorPc = "idle"
    /\ sensorLast = "failed"
    /\ stateSource = "grid"
    /\ _state # NoneV
    /\ _attributes.popularity_is_live = "True"

=============================================================================
